---- MODULE Spec2Model ----
(***************************************************************************)
(* State-machine model of the client-side reconciliation code of the blrec *)
(* web application: the structural differ, the retry operator, the         *)
(* settings synchronizer with its consuming settings view, and the task    *)
(* list polling feed.                                                      *)
(*                                                                         *)
(* Three specifications share the module; each leaves the variables of    *)
(* the other two parts at their initial values:                            *)
(*   SpecSync   SettingsSyncService.syncSettings + OutputSettingsComponent *)
(*   SpecRetry  the retry operator applied to a single operation           *)
(*   SpecPoll   TasksComponent and its polling subscriptions               *)
(***************************************************************************)
EXTENDS Integers, Sequences, FiniteSets, TLC

(***************************************************************************)
(* Bounds of the model.                                                    *)
(***************************************************************************)
MaxValue == 1        \* scalar field values range over 0..MaxValue
MaxEdits == 2        \* value changes fed to one syncSettings instance
MaxCount == 2        \* retry counts tried by the retry harness: 0..MaxCount
MaxInvocations == 4  \* cap on invocations of the harness operation
MaxTime == 4         \* the harness clock runs over 0..MaxTime
MaxDelay == 2        \* retry delays tried by the harness: 1..MaxDelay
MaxSubs == 2         \* polling subscriptions created by one TasksComponent
MaxRequests == 2     \* requests sent through the AuthInterceptor, in turn
MaxLen == 2          \* length of the strings a form field can hold
MaxAccesses == 6     \* reads of the getters of the two push services
MaxPending == 2      \* recorder requests of one task item in flight

(***************************************************************************)
(* Values.  A JavaScript value is tagged with its kind so that a scalar,   *)
(* a nested object and undefined can be told apart (lodash isObject) and   *)
(* compared (lodash isEqual).  An object is a function from its own keys   *)
(* to values.                                                              *)
(***************************************************************************)
Scalar(n) == [kind |-> "scalar", val |-> n]

Object(m) == [kind |-> "object", val |-> m]

Undefined == [kind |-> "undefined", val |-> 0]

isObject(v) == v.kind = "object"

RECURSIVE isEqual(_, _)
isEqual(a, b) ==
    /\ a.kind = b.kind
    /\ IF a.kind = "object"
       THEN /\ DOMAIN a.val = DOMAIN b.val
            /\ \A k \in DOMAIN a.val : isEqual(a.val[k], b.val[k])
       ELSE a.val = b.val

isEmpty(m) == DOMAIN m = {}

\* Reflect.get(base, key): undefined for a key the object does not have
ReflectGet(base, key) == IF key \in DOMAIN base THEN base[key] ELSE Undefined

\* the inner diff of difference(): transform() over the keys of `object`
diffDropsNested(object, base) ==
    LET changed == {k \in DOMAIN object :
                       /\ ~isEqual(object[k], ReflectGet(base, k))
                       /\ ~isObject(object[k])}
    IN  [k \in changed |-> object[k]]

RECURSIVE diff(_, _)
diff(object, base) ==
    LET changed == {k \in DOMAIN object :
                       ~isEqual(object[k], ReflectGet(base, k))}
    IN  [k \in changed |->
            IF isObject(object[k]) /\ isObject(ReflectGet(base, k))
            THEN Object(diff(object[k].val, ReflectGet(base, k).val))
            ELSE object[k]]

\* difference(object, base, deep = true)
difference(object, base) == diff(object, base)

(***************************************************************************)
(* The settings namespace of the modelled view: two of the scalar fields   *)
(* of OutputSettings.                                                      *)
(***************************************************************************)
Fields == {"outDir", "filesizeLimit"}

Values == 0..MaxValue

Snapshots == [Fields -> {Scalar(v) : v \in Values}]

\* the snapshot the settings view is loaded with (values are only compared,
\* so one loaded snapshot stands for all)
LoadedSettings == [k \in Fields |-> Scalar(0)]

(***************************************************************************)
(* The retry operator: the selector passed to delayWhen.  `index` is the   *)
(* zero-based number of the error within one subscription of the retried   *)
(* stream.                                                                 *)
(***************************************************************************)
POSITIVE_INFINITY == 1000000

delayWhenOffByOne(count, index) ==
    IF count # POSITIVE_INFINITY /\ index > count THEN "throw" ELSE "timer"

delayWhenSelector(count, index) ==
    IF count # POSITIVE_INFINITY /\ index >= count THEN "throw" ELSE "timer"

\* the error that retry surfaces once the selector throws: `throw value`
thrownWrapped(value) == [wrapped |-> value]

thrownValue(value) == value

\* timer(delay), armed at time `now`: the earliest time at which it fires
timerNoDelay(now, delay) == now

timerDue(now, delay) == now + delay

(***************************************************************************)
(* switchMap: projecting a new inner subscription unsubscribes the         *)
(* previous one.  `inners` is the set of live inner subscriptions.         *)
(***************************************************************************)
mergeMapInstead(inners, new) == inners \cup {new}

switchMap(inners, new) == {new}


(***************************************************************************)
(* State.                                                                  *)
(*                                                                         *)
(* Settings synchronizer and its view (OutputSettingsComponent):           *)
(*   settings      this.settings, the snapshot the view was loaded with    *)
(*   initialValue  the initialValue argument of syncSettings               *)
(*   syncStatus    this.syncStatus                                         *)
(*   acc           the accumulator of scan: [prev, curr, diff]             *)
(*   inners        the live inner subscriptions of switchMap; each is the  *)
(*                 write of one edit with the state of its retry           *)
(*   live          the stream returned by syncSettings has not errored     *)
(*   lastDetail    the detail the subscriber consumed last, if any         *)
(* History of one syncSettings instance:                                   *)
(*   editLog       the values received from valueChanges, in order         *)
(*   requests      the PATCH requests sent, retries included, in order:    *)
(*                 [id: number of the edit, diff: the delta in the body]   *)
(*   records       the details delivered to the subscriber, in order:      *)
(*                 [id: number of the edit, curr, diff, ok: it is a        *)
(*                 DetailWithResult]                                       *)
(*                                                                         *)
(* The retry operator applied to one operation (a source observable that   *)
(* answers each subscription with one value or with an error):             *)
(*   rCount, rDelay  the arguments of retry                                *)
(*   rPhase        "pending": the operation is running; "waiting": the     *)
(*                 timer of delayWhen is armed; "done": the result was     *)
(*                 delivered; "unused"                                     *)
(*   rIndex        the index delayWhen passes to its selector next         *)
(*   rDue          the time the armed timer fires at the earliest          *)
(*   rOutcome      the value or error delivered downstream, if any         *)
(*   now           the clock                                               *)
(* History: rInvokedAt, rFailedAt  the times of the invocations of the     *)
(*                 operation and of their failures, in order               *)
(*                                                                         *)
(* TasksComponent and the subscriptions it creates in syncTaskData:        *)
(*   tPhase        "constructed", "initialized" (after ngOnInit),          *)
(*                 "destroyed" (after ngOnDestroy), "unused"               *)
(*   visible       document.visibilityState === 'visible'                  *)
(*   selection     this.selection                                          *)
(*   loading       this.loading                                            *)
(*   dataSubscription  this.dataSubscription: a subscription, 0 undefined  *)
(*   nSubs         number of subscriptions created so far                  *)
(*   subs          the subscriptions: phase "none" (not created),          *)
(*                 "active" (interval running), "retrywait" (source        *)
(*                 unsubscribed, retry timer armed), "errored" (error      *)
(*                 delivered to the subscriber), "closed" (unsubscribed);  *)
(*                 fetches: the pending requests of switchMap; index: the  *)
(*                 index delayWhen passes next; cancelled: a tick has      *)
(*                 cancelled a pending fetch of this subscription          *)
(***************************************************************************)
VARIABLES settings, initialValue, syncStatus, acc, inners, live, lastDetail,
          editLog, requests, records

syncVars == <<settings, initialValue, syncStatus, acc, inners, live,
              lastDetail, editLog, requests, records>>

VARIABLES rCount, rDelay, rPhase, rIndex, rDue, rOutcome, now, rInvokedAt,
          rFailedAt

retryVars == <<rCount, rDelay, rPhase, rIndex, rDue, rOutcome, now,
               rInvokedAt, rFailedAt>>

VARIABLES tPhase, visible, selection, loading, dataSubscription, nSubs, subs

pollVars == <<tPhase, visible, selection, loading, dataSubscription, nSubs,
              subs>>

VARIABLES storage, aPhase, aHeader, aRetried, aSent, aStatus, aPrompts,
          aResult, nReq

authVars == <<storage, aPhase, aHeader, aRetried, aSent, aStatus, aPrompts,
              aResult, nReq>>

VARIABLES view, formValue, fDebounce, fLast, fAcc, fWrite, fOut, fLastValid

formVars == <<view, formValue, fDebounce, fLast, fAcc, fWrite, fOut,
              fLastValid>>

VARIABLES dObject, dBase, dResult

diffVars == <<dObject, dBase, dResult>>

VARIABLES eventSubject, exceptionSubject, channels, returned

pushVars == <<eventSubject, exceptionSubject, channels, returned>>

VARIABLES switchPending, recorderEnabled, monitorEnabled, pending,
          taskOptions, options, settingsDialogVisible, patch

itemVars == <<switchPending, recorderEnabled, monitorEnabled, pending,
              taskOptions, options, settingsDialogVisible, patch>>

vars == <<syncVars, retryVars, pollVars, authVars, formVars, diffVars,
          pushVars, itemVars>>

(***************************************************************************)
(* SettingsSyncService.syncSettings                                        *)
(***************************************************************************)
SyncRetryCount == 3

\* the accumulator function of scan: ([, prev], curr) => [prev, curr, diff]
scanStalePrev(a, curr) ==
    [prev |-> a.prev, curr |-> curr, diff |-> difference(curr, a.prev)]

scan(a, curr) ==
    [prev |-> a.curr, curr |-> curr, diff |-> difference(curr, a.curr)]

\* filter(([, , diff]) => !isEmpty(diff))
filterPassesAll(a) == TRUE

filterNonEmpty(a) == ~isEmpty(a.diff)

\* the inner observable switchMap projects for one accumulated edit:
\* changeSettings({[key]: diff}) piped through retry(3, 300)
NewInner(id, a) ==
    [id |-> id, prev |-> a.prev, curr |-> a.curr, diff |-> a.diff,
     phase |-> "pending", index |-> 0]

\* map((settings) => ({prev, curr, diff, result: settings[key]}))
DetailWithResult(i, result) ==
    [prev |-> i.prev, curr |-> i.curr, diff |-> i.diff, result |-> result]

DetailWithError(i, error) ==
    [prev |-> i.prev, curr |-> i.curr, diff |-> i.diff, error |-> error]

\* catchError((error) => of({prev, curr, diff, error})) inside the inner pipe
catchErrorMissing(i, error) ==
    [caught |-> FALSE, detail |-> DetailWithError(i, error)]

catchError(i, error) ==
    [caught |-> TRUE, detail |-> DetailWithError(i, error)]

\* the HttpErrorResponse of one failed attempt, identified by the attempt
HttpError(i) == [edit |-> i.id, attempt |-> i.index + 1]

\* what the server may echo for the namespace: the intended value, or the
\* value it had before when it rejected or coerced the change
ServerEcho(i) == {i.curr, i.prev}

\* calcSyncStatus
calcSyncStatusAlwaysTrue(detail) ==
    [k \in DOMAIN detail.diff |-> "diff" \in DOMAIN detail]

calcSyncStatusAllKeys(detail) ==
    [k \in DOMAIN detail.curr |-> "result" \in DOMAIN detail]

calcSyncStatus(detail) ==
    [k \in DOMAIN detail.diff |-> "result" \in DOMAIN detail]

\* { ...a, ...b }
Spread(a, b) ==
    [k \in DOMAIN a \cup DOMAIN b |-> IF k \in DOMAIN b THEN b[k] ELSE a[k]]

\* the subscriber of OutputSettingsComponent.ngOnInit consuming one detail
\* emitted by inner subscription i, which then completes
Deliver(i, detail) ==
    /\ syncStatus' = Spread(syncStatus, calcSyncStatus(detail))
    /\ lastDetail' = <<detail>>
    /\ records' = Append(records, [id |-> i.id, curr |-> detail.curr,
                                    diff |-> detail.diff,
                                    ok |-> "result" \in DOMAIN detail])
    /\ inners' = inners \ {i}

\* the form emits v on valueChanges: scan, filter and switchMap
ValueChange(v) ==
    /\ live
    /\ Len(editLog) < MaxEdits
    /\ LET a == scan(acc, v)
           id == Len(editLog) + 1
       IN  /\ acc' = a
           /\ editLog' = Append(editLog, v)
           /\ IF filterNonEmpty(a)
              THEN /\ inners' = switchMap(inners, NewInner(id, a))
                   /\ requests' = Append(requests, [id |-> id, diff |-> a.diff])
              ELSE UNCHANGED <<inners, requests>>
    /\ UNCHANGED <<settings, initialValue, syncStatus, live, lastDetail,
                   records>>
    /\ UNCHANGED <<retryVars, pollVars, authVars, formVars,
                   diffVars, pushVars,
                   itemVars>>

\* the PATCH of inner subscription i succeeds with `result` as settings[key]
RequestSucceeds(i, result) ==
    /\ i \in inners /\ i.phase = "pending"
    /\ result \in ServerEcho(i)
    /\ Deliver(i, DetailWithResult(i, result))
    /\ UNCHANGED <<settings, initialValue, acc, live, editLog, requests>>
    /\ UNCHANGED <<retryVars, pollVars, authVars, formVars,
                   diffVars, pushVars,
                   itemVars>>

\* the PATCH of inner subscription i fails
RequestFails(i) ==
    /\ i \in inners /\ i.phase = "pending"
    /\ IF delayWhenSelector(SyncRetryCount, i.index) = "timer"
       THEN /\ inners' = (inners \ {i}) \cup
                         {[i EXCEPT !.phase = "waiting", !.index = @ + 1]}
            /\ UNCHANGED <<syncStatus, records, live, lastDetail>>
       ELSE LET out == catchError(i, thrownValue(HttpError(i)))
            IN  IF out.caught
                THEN /\ Deliver(i, out.detail)
                     /\ UNCHANGED live
                ELSE /\ live' = FALSE
                     /\ inners' = {}
                     /\ UNCHANGED <<syncStatus, records, lastDetail>>
    /\ UNCHANGED <<settings, initialValue, acc, editLog, requests>>
    /\ UNCHANGED <<retryVars, pollVars, authVars, formVars,
                   diffVars, pushVars,
                   itemVars>>

\* the retry timer of inner subscription i fires: the PATCH is sent again
SyncRetryTimer(i) ==
    /\ i \in inners /\ i.phase = "waiting"
    /\ inners' = (inners \ {i}) \cup {[i EXCEPT !.phase = "pending"]}
    /\ requests' = Append(requests, [id |-> i.id, diff |-> i.diff])
    /\ UNCHANGED <<settings, initialValue, syncStatus, acc, live, lastDetail,
                   editLog, records>>
    /\ UNCHANGED <<retryVars, pollVars, authVars, formVars,
                   diffVars, pushVars,
                   itemVars>>

\* OutputSettingsComponent after ngOnChanges and ngOnInit: the status is all
\* true and syncSettings is subscribed with this.settings as initialValue
SyncInit ==
    /\ settings = LoadedSettings
    /\ initialValue = settings
    /\ syncStatus = [k \in DOMAIN settings |-> TRUE]
    /\ acc = [prev |-> initialValue, curr |-> initialValue, diff |-> <<>>]
    /\ inners = {}
    /\ live = TRUE
    /\ lastDetail = <<>>
    /\ editLog = <<>>
    /\ requests = <<>>
    /\ records = <<>>

NextSync ==
    \/ \E v \in Snapshots : ValueChange(v)
    \/ \E i \in inners : \E result \in Snapshots : RequestSucceeds(i, result)
    \/ \E i \in inners : RequestFails(i)
    \/ \E i \in inners : SyncRetryTimer(i)

(***************************************************************************)
(* retry(count, delay) applied to one operation.                           *)
(***************************************************************************)
\* the retry counts and delays tried
Counts == (0..MaxCount) \cup {POSITIVE_INFINITY}

Delays == 1..MaxDelay

\* the value or the error the n-th invocation of the operation ends with
OpValue(n) == [invocation |-> n]

OpError(n) == [invocation |-> n]

\* time passes
Tick ==
    /\ rPhase \in {"pending", "waiting"}
    /\ now < MaxTime
    /\ now' = now + 1
    /\ UNCHANGED <<rCount, rDelay, rPhase, rIndex, rDue, rOutcome,
                   rInvokedAt, rFailedAt>>
    /\ UNCHANGED <<syncVars, pollVars, authVars, formVars,
                   diffVars, pushVars,
                   itemVars>>

\* the running operation emits its value and completes: retryWhen passes
\* both downstream
OpSucceeds ==
    /\ rPhase = "pending"
    /\ rPhase' = "done"
    /\ rOutcome' = <<[ok |-> TRUE, value |-> OpValue(Len(rInvokedAt))]>>
    /\ UNCHANGED <<rCount, rDelay, rIndex, rDue, now, rInvokedAt, rFailedAt>>
    /\ UNCHANGED <<syncVars, pollVars, authVars, formVars,
                   diffVars, pushVars,
                   itemVars>>

\* the running operation fails: the error goes to delayWhen, whose selector
\* throws it or arms timer(delay)
OpFails ==
    /\ rPhase = "pending"
    /\ rFailedAt' = Append(rFailedAt, now)
    /\ IF delayWhenSelector(rCount, rIndex) = "timer"
       THEN /\ rPhase' = "waiting"
            /\ rDue' = timerDue(now, rDelay)
            /\ rIndex' = rIndex + 1
            /\ UNCHANGED rOutcome
       ELSE /\ rPhase' = "done"
            /\ rOutcome' = <<[ok |-> FALSE,
                              value |-> thrownValue(OpError(Len(rInvokedAt)))]>>
            /\ UNCHANGED <<rDue, rIndex>>
    /\ UNCHANGED <<rCount, rDelay, now, rInvokedAt>>
    /\ UNCHANGED <<syncVars, pollVars, authVars, formVars,
                   diffVars, pushVars,
                   itemVars>>

\* the timer fires: retryWhen subscribes to the source again
RetryTimer ==
    /\ rPhase = "waiting"
    /\ now >= rDue
    /\ Len(rInvokedAt) < MaxInvocations
    /\ rPhase' = "pending"
    /\ rInvokedAt' = Append(rInvokedAt, now)
    /\ UNCHANGED <<rCount, rDelay, rIndex, rDue, rOutcome, now, rFailedAt>>
    /\ UNCHANGED <<syncVars, pollVars, authVars, formVars,
                   diffVars, pushVars,
                   itemVars>>

\* the retried stream has just been subscribed: the operation runs
RetryInit ==
    /\ rCount \in Counts
    /\ rDelay \in Delays
    /\ rPhase = "pending"
    /\ rIndex = 0
    /\ rDue = 0
    /\ rOutcome = <<>>
    /\ now = 0
    /\ rInvokedAt = <<0>>
    /\ rFailedAt = <<>>

RetryUnused ==
    /\ rCount = 0
    /\ rDelay = 0
    /\ rPhase = "unused"
    /\ rIndex = 0
    /\ rDue = 0
    /\ rOutcome = <<>>
    /\ now = 0
    /\ rInvokedAt = <<>>
    /\ rFailedAt = <<>>

NextRetry ==
    \/ Tick
    \/ OpSucceeds
    \/ OpFails
    \/ RetryTimer

(***************************************************************************)
(* TasksComponent and its polling feed.                                    *)
(***************************************************************************)
PollRetryCount == 10

SubIds == 1..MaxSubs

Selections == {"all", "living"}

\* a subscription: its phase, its pending requests, the index of the retry
\* operator, and three records of its past: a tick has cancelled a pending
\* request, a request succeeded after an earlier one had failed, and the
\* number of notifications with nzDuration 0 its error callback has issued
NoSub ==
    [phase |-> "none", fetches |-> {}, index |-> 0, cancelled |-> FALSE,
     recovered |-> FALSE, sticky |-> 0]

\* an unsubscribed subscription holds no state any more
ClosedSub ==
    [phase |-> "closed", fetches |-> {}, index |-> 0, cancelled |-> FALSE,
     recovered |-> FALSE, sticky |-> 0]

\* a name for a new pending request that no pending request has
FreshFetch(fetches) ==
    CHOOSE n \in 1..(Cardinality(fetches) + 1) :
        /\ n \notin fetches
        /\ \A m \in 1..(n - 1) : m \in fetches

\* subscribing of(of(0), interval(1000)).pipe(concatAll(), switchMap(...)):
\* of(0) emits at once, so the first request is sent at subscription, and
\* the interval starts
SubscribeSource(sub) ==
    [sub EXCEPT !.phase = "active",
                !.fetches = switchMap(sub.fetches, FreshFetch(sub.fetches))]

\* the error callback of subscribe: one more notification with nzDuration 0
errorCallbackSilent(n) == n

errorCallback(n) == n + 1

\* this.dataSubscription?.unsubscribe()
desyncTaskData(ss, ds) ==
    IF ds # 0 /\ ss[ds].phase \in {"active", "retrywait"}
    THEN [ss EXCEPT ![ds] = ClosedSub]
    ELSE ss

\* syncTaskData on the subscriptions ss: a new subscription is created
syncTaskData(ss) ==
    [ss EXCEPT ![nSubs + 1] = SubscribeSource(NoSub)]

ngOnInit ==
    /\ tPhase = "constructed"
    /\ nSubs < MaxSubs
    /\ tPhase' = "initialized"
    /\ subs' = syncTaskData(subs)
    /\ dataSubscription' = nSubs + 1
    /\ nSubs' = nSubs + 1
    /\ UNCHANGED <<visible, selection, loading>>
    /\ UNCHANGED <<syncVars, retryVars, authVars, formVars,
                   diffVars, pushVars,
                   itemVars>>

ngOnDestroy ==
    /\ tPhase = "initialized"
    /\ tPhase' = "destroyed"
    /\ subs' = desyncTaskData(subs, dataSubscription)
    /\ UNCHANGED <<visible, selection, loading, dataSubscription, nSubs>>
    /\ UNCHANGED <<syncVars, retryVars, authVars, formVars,
                   diffVars, pushVars,
                   itemVars>>

\* the visibilitychange listener the constructor adds to the document
VisibilityChange ==
    /\ tPhase \in {"initialized", "destroyed"}
    /\ visible' = ~visible
    /\ IF visible'
       THEN /\ nSubs < MaxSubs
            /\ subs' = syncTaskData(subs)
            /\ dataSubscription' = nSubs + 1
            /\ nSubs' = nSubs + 1
       ELSE /\ subs' = desyncTaskData(subs, dataSubscription)
            /\ UNCHANGED <<dataSubscription, nSubs>>
    /\ UNCHANGED <<tPhase, selection, loading>>
    /\ UNCHANGED <<syncVars, retryVars, authVars, formVars,
                   diffVars, pushVars,
                   itemVars>>

onSelectionChanged(sel) ==
    /\ tPhase = "initialized"
    /\ nSubs < MaxSubs
    /\ selection' = sel
    /\ subs' = syncTaskData(desyncTaskData(subs, dataSubscription))
    /\ dataSubscription' = nSubs + 1
    /\ nSubs' = nSubs + 1
    /\ UNCHANGED <<tPhase, visible, loading>>
    /\ UNCHANGED <<syncVars, retryVars, authVars, formVars,
                   diffVars, pushVars,
                   itemVars>>

\* interval(1000) of subscription s emits: switchMap sends a new request
IntervalTick(s) ==
    /\ subs[s].phase = "active"
    /\ subs' = [subs EXCEPT
                   ![s].fetches = switchMap(@, FreshFetch(@)),
                   ![s].cancelled = @ \/ subs[s].fetches # {}]
    /\ UNCHANGED <<tPhase, visible, selection, loading, dataSubscription,
                   nSubs>>
    /\ UNCHANGED <<syncVars, retryVars, authVars, formVars,
                   diffVars, pushVars,
                   itemVars>>

\* request f of subscription s is answered: the next callback runs
FetchSucceeds(s, f) ==
    /\ f \in subs[s].fetches
    /\ subs' = [subs EXCEPT ![s].fetches = @ \ {f},
                             ![s].recovered = @ \/ subs[s].index > 0]
    /\ loading' = FALSE
    /\ UNCHANGED <<tPhase, visible, selection, dataSubscription, nSubs>>
    /\ UNCHANGED <<syncVars, retryVars, authVars, formVars,
                   diffVars, pushVars,
                   itemVars>>

\* request f of subscription s fails: catchError notifies and rethrows, and
\* retry(10, 3000) unsubscribes the source and arms its timer, or passes the
\* error to the error callback
FetchFails(s, f) ==
    /\ f \in subs[s].fetches
    /\ IF delayWhenSelector(PollRetryCount, subs[s].index) = "timer"
       THEN subs' = [subs EXCEPT ![s].phase = "retrywait",
                                 ![s].fetches = {},
                                 ![s].index = @ + 1]
       ELSE subs' = [subs EXCEPT ![s].phase = "errored",
                                 ![s].fetches = {},
                                 ![s].sticky = errorCallback(@)]
    /\ UNCHANGED <<tPhase, visible, selection, loading, dataSubscription,
                   nSubs>>
    /\ UNCHANGED <<syncVars, retryVars, authVars, formVars,
                   diffVars, pushVars,
                   itemVars>>

\* the retry timer of subscription s fires: the source is subscribed again
PollRetryTimer(s) ==
    /\ subs[s].phase = "retrywait"
    /\ subs' = [subs EXCEPT ![s] = SubscribeSource(@)]
    /\ UNCHANGED <<tPhase, visible, selection, loading, dataSubscription,
                   nSubs>>
    /\ UNCHANGED <<syncVars, retryVars, authVars, formVars,
                   diffVars, pushVars,
                   itemVars>>

\* after the constructor
PollInit ==
    /\ tPhase = "constructed"
    /\ visible \in BOOLEAN
    /\ selection \in Selections
    /\ loading = TRUE
    /\ dataSubscription = 0
    /\ nSubs = 0
    /\ subs = [s \in SubIds |-> NoSub]

PollUnused ==
    /\ tPhase = "unused"
    /\ visible = TRUE
    /\ selection = "all"
    /\ loading = TRUE
    /\ dataSubscription = 0
    /\ nSubs = 0
    /\ subs = [s \in SubIds |-> NoSub]

NextPoll ==
    \/ ngOnInit
    \/ ngOnDestroy
    \/ VisibilityChange
    \/ \E sel \in Selections : onSelectionChanged(sel)
    \/ \E s \in SubIds : IntervalTick(s)
    \/ \E s \in SubIds : \E f \in subs[s].fetches : FetchSucceeds(s, f)
    \/ \E s \in SubIds : \E f \in subs[s].fetches : FetchFails(s, f)
    \/ \E s \in SubIds : PollRetryTimer(s)

(***************************************************************************)
(* AuthService over StorageService, and AuthInterceptor.                   *)
(* The stored item is <<>> when localStorage has no item for the key and   *)
(* <<k>> when it holds the string k.                                       *)
(***************************************************************************)
Keys == {"", "right", "wrong"}

\* the key the server accepts
ServerKey == "right"

\* what window.prompt('API Key:') ?? '' can evaluate to
PromptAnswers == Keys

Unauthorized == 401

\* the statuses of the other failures: no response, and domain rejections
OtherStatuses == {0, 403, 404, 409}

AuthRetryCount == 3

hasApiKey(st) == st # <<>>

getApiKey(st) == IF st = <<>> THEN "" ELSE st[1]

setApiKey(st, value) == <<value>>

removeApiKey(st) == <<>>

\* the catchError callback on the stored item: after a 401 the item is
\* removed if there is one, and the answer of the prompt is stored
catchErrorStorage(st, status, answer) ==
    IF status = Unauthorized
    THEN setApiKey(IF hasApiKey(st) THEN removeApiKey(st) ELSE st, answer)
    ELSE st

\* rxjs retry(count) after `used` resubscriptions: resubscribe on an error
retryOnceMore(count, used) == used <= count

retryResubscribes(count, used) == used < count

\* an attempt as it is sent: the X-API-KEY header of the request, and the
\* key the store holds at that moment
Attempt(header, st) == [header |-> header, stored |-> getApiKey(st)]

NoResult == [kind |-> "none", status |-> 0, attempt |-> 0]

\* intercept(request, next): the request is cloned with the stored key, and
\* the subscriber of the returned observable sends the clone
Intercept ==
    /\ aPhase \in {"idle", "done"}
    /\ nReq < MaxRequests
    /\ nReq' = nReq + 1
    /\ aHeader' = getApiKey(storage)
    /\ aSent' = <<Attempt(getApiKey(storage), storage)>>
    /\ aStatus' = <<>>
    /\ aRetried' = 0
    /\ aPrompts' = 0
    /\ aResult' = NoResult
    /\ aPhase' = "sent"
    /\ UNCHANGED storage
    /\ UNCHANGED <<syncVars, retryVars, pollVars, formVars,
                   diffVars, pushVars,
                   itemVars>>

\* the server answers the pending attempt with a response
ResponseOk ==
    /\ aPhase = "sent"
    /\ aHeader = ServerKey
    /\ aStatus' = Append(aStatus, 200)
    /\ aResult' = [kind |-> "response", status |-> 200,
                   attempt |-> Len(aSent)]
    /\ aPhase' = "done"
    /\ UNCHANGED <<storage, aHeader, aRetried, aSent, aPrompts, nReq>>
    /\ UNCHANGED <<syncVars, retryVars, pollVars, formVars,
                   diffVars, pushVars,
                   itemVars>>

\* the pending attempt fails with status: catchError runs its callback
\* (answer is what the prompt returns after a 401) and rethrows, and retry(3)
\* subscribes next.handle(clone) again, which sends the clone again, or
\* passes the error on
ResponseError(status, answer) ==
    /\ aPhase = "sent"
    /\ aStatus' = Append(aStatus, status)
    /\ storage' = catchErrorStorage(storage, status, answer)
    /\ aPrompts' = IF status = Unauthorized THEN aPrompts + 1 ELSE aPrompts
    /\ IF retryResubscribes(AuthRetryCount, aRetried)
       THEN /\ aRetried' = aRetried + 1
            /\ aSent' = Append(aSent, Attempt(aHeader, storage'))
            /\ UNCHANGED <<aPhase, aResult>>
       ELSE /\ aResult' = [kind |-> "error", status |-> status,
                           attempt |-> Len(aSent)]
            /\ aPhase' = "done"
            /\ UNCHANGED <<aRetried, aSent>>
    /\ UNCHANGED <<aHeader, nReq>>
    /\ UNCHANGED <<syncVars, retryVars, pollVars, formVars,
                   diffVars, pushVars,
                   itemVars>>

\* the server rejects the key of the pending attempt
Response401(answer) ==
    /\ aHeader # ServerKey
    /\ ResponseError(Unauthorized, answer)

\* the pending attempt fails for another reason: no response, or the server
\* accepts the key and rejects the request
ResponseOtherError(status) ==
    /\ status = 0 \/ aHeader = ServerKey
    /\ ResponseError(status, "")

AuthInit ==
    /\ storage \in {<<>>} \cup {<<k>> : k \in Keys}
    /\ aPhase = "idle"
    /\ aHeader = ""
    /\ aRetried = 0
    /\ aSent = <<>>
    /\ aStatus = <<>>
    /\ aPrompts = 0
    /\ aResult = NoResult
    /\ nReq = 0

AuthUnused ==
    /\ storage = <<>>
    /\ aPhase = "unused"
    /\ aHeader = ""
    /\ aRetried = 0
    /\ aSent = <<>>
    /\ aStatus = <<>>
    /\ aPrompts = 0
    /\ aResult = NoResult
    /\ nReq = 0

NextAuth ==
    \/ Intercept
    \/ ResponseOk
    \/ \E answer \in PromptAnswers : Response401(answer)
    \/ \E status \in OtherStatuses : ResponseOtherError(status)

(***************************************************************************)
(* Settings views and their forms: HeaderSettingsComponent feeds the       *)
(* valueChanges of its form to syncSettings as they are, and               *)
(* PushdeerSettingsComponent pipes them through filterValueChanges.  A     *)
(* string is a sequence of characters; "u" stands for the text of a URL.   *)
(***************************************************************************)
Chars == {" ", "u"}

Strings == UNION {[1..n -> Chars] : n \in 0..MaxLen}

RECURSIVE trimStart(_)
trimStart(str) ==
    IF str # <<>> /\ Head(str) = " " THEN trimStart(Tail(str)) ELSE str

RECURSIVE trimEnd(_)
trimEnd(str) ==
    IF str # <<>> /\ str[Len(str)] = " "
    THEN trimEnd(SubSeq(str, 1, Len(str) - 1))
    ELSE str

\* String.prototype.trim
trim(str) == trimEnd(trimStart(str))

isString(v) == v.kind = "scalar" /\ v.val \in Strings

\* trimString(): every string field of the object is trimmed
trimStringIdentity(object) == object

trimString(object) ==
    [k \in DOMAIN object |->
        IF isString(object[k]) THEN Scalar(trim(object[k].val))
        ELSE object[k]]

\* Validators.required: an empty string is invalid
required(str) == str # <<>>

\* Validators.pattern(/^https?:\/\/.+/): an empty string is valid, another
\* string must begin with the URL
patternUrl(str) == str = <<>> \/ Head(str) = "u"

DirectViews == {"header"}

FilteredViews == {"pushdeer"}

Views == DirectViews \cup FilteredViews

\* the field of the form that the operator edits
FieldOf(v) == IF v = "header" THEN "userAgent" ELSE "server"

\* the value of the form when its edited field holds str
FormObject(v, str) == [k \in {FieldOf(v)} |-> Scalar(str)]

\* control.valid of the form of view v whose edited field holds str
valid(v, str) == IF v = "header" THEN required(str) ELSE patternUrl(str)

\* the settings the view is created with
LoadedString(v) == IF v = "header" THEN <<"u">> ELSE <<>>

\* filter(() => control.valid) of filterValueChanges
filterValidPassesAll(v, str) == TRUE

filterValid(v, str) == valid(v, str)

\* distinctUntilChanged(isEqual): last is <<>> before the first emission
distinctUntilChanged(last, object) ==
    last = <<>> \/ ~isEqual(Object(last[1]), Object(object))

\* syncSettings receives object, which the form produced while its validity
\* was ok: scan, filter, and the PATCH request switchMap sends
Feed(object, ok) ==
    LET a == scan(fAcc, object)
    IN  /\ fAcc' = a
        /\ fWrite' = IF filterNonEmpty(a)
                     THEN <<[body |-> a.diff, valid |-> ok]>>
                     ELSE fWrite

\* the form of a view without filterValueChanges emits on valueChanges
ValueChangeDirect(str) ==
    /\ view \in DirectViews
    /\ formValue' = str
    /\ Feed(FormObject(view, str), valid(view, str))
    /\ UNCHANGED <<view, fDebounce, fLast, fOut, fLastValid>>
    /\ UNCHANGED <<syncVars, retryVars, pollVars, authVars,
                   diffVars, pushVars,
                   itemVars>>

\* the form of a view with filterValueChanges emits on valueChanges: a
\* value that passes the filter restarts the timer of debounceTime(300)
ValueChangeFiltered(str) ==
    /\ view \in FilteredViews
    /\ formValue' = str
    /\ fDebounce' = IF filterValid(view, str)
                    THEN <<[value |-> FormObject(view, str),
                            valid |-> valid(view, str)]>>
                    ELSE fDebounce
    /\ fLastValid' = IF valid(view, str) THEN <<str>> ELSE fLastValid
    /\ UNCHANGED <<view, fLast, fAcc, fWrite, fOut>>
    /\ UNCHANGED <<syncVars, retryVars, pollVars, authVars,
                   diffVars, pushVars,
                   itemVars>>

\* the values filterValueChanges has emitted, the last two of them kept
LastTwo(out, object) ==
    IF out = <<>> THEN <<object>> ELSE <<out[Len(out)], object>>

\* the timer of debounceTime fires: the held value is trimmed, compared
\* with the value emitted before, and emitted to syncSettings
DebounceFires ==
    /\ fDebounce # <<>>
    /\ fDebounce' = <<>>
    /\ LET object == trimString(fDebounce[1].value)
       IN  IF distinctUntilChanged(fLast, object)
           THEN /\ fLast' = <<object>>
                /\ fOut' = LastTwo(fOut, object)
                /\ Feed(object, fDebounce[1].valid)
           ELSE UNCHANGED <<fLast, fAcc, fWrite, fOut>>
    /\ UNCHANGED <<view, formValue, fLastValid>>
    /\ UNCHANGED <<syncVars, retryVars, pollVars, authVars,
                   diffVars, pushVars,
                   itemVars>>

\* after ngOnChanges and ngOnInit of the view
FormInit ==
    /\ view \in Views
    /\ formValue = LoadedString(view)
    /\ fDebounce = <<>>
    /\ fLast = <<>>
    /\ fAcc = [prev |-> FormObject(view, LoadedString(view)),
               curr |-> FormObject(view, LoadedString(view)),
               diff |-> <<>>]
    /\ fWrite = <<>>
    /\ fOut = <<>>
    /\ fLastValid = <<>>

FormUnused ==
    /\ view = "unused"
    /\ formValue = <<>>
    /\ fDebounce = <<>>
    /\ fLast = <<>>
    /\ fAcc = <<>>
    /\ fWrite = <<>>
    /\ fOut = <<>>
    /\ fLastValid = <<>>

NextForm ==
    \/ \E str \in Strings : ValueChangeDirect(str)
    \/ \E str \in Strings : ValueChangeFiltered(str)
    \/ DebounceFires

(***************************************************************************)
(* difference() called on its own: the arguments are objects of up to two  *)
(* levels, or undefined.                                                   *)
(***************************************************************************)
\* the nested objects: every subset of the keys x, y with scalar values
NestedObjects ==
    UNION {[ks -> {Scalar(v) : v \in Values}] : ks \in SUBSET {"x", "y"}}

\* the values of the field g: a scalar or a nested object
GroupValues ==
    {Scalar(v) : v \in Values} \cup {Object(m) : m \in NestedObjects}

\* the objects: a scalar field a and a field g, each present or not
TopObjects ==
    UNION {[ks -> {Scalar(v) : v \in Values} \cup GroupValues] :
              ks \in SUBSET {"a", "g"}}

\* an object whose field a, if present, is a scalar
Arguments ==
    {Object(m) : m \in {o \in TopObjects :
                            "a" \in DOMAIN o => ~isObject(o["a"])}}
        \cup {Undefined}

Returned(m) == [kind |-> "return", val |-> m]

TypeError == [kind |-> "throw", val |-> <<>>]

\* the call difference(object, base): transform() over an undefined object
\* iterates nothing and returns {}; Reflect.get(base, key) throws a
\* TypeError when base is not an object
differenceCall(object, base) ==
    IF ~isObject(object) THEN Returned(<<>>)
    ELSE IF ~isObject(base)
         THEN IF isEmpty(object.val) THEN Returned(<<>>) ELSE TypeError
         ELSE Returned(difference(object.val, base.val))

CallDifference ==
    /\ dResult = <<>>
    /\ dResult' = <<differenceCall(dObject, dBase)>>
    /\ UNCHANGED <<dObject, dBase>>
    /\ UNCHANGED <<syncVars, retryVars, pollVars, authVars, formVars,
                   pushVars, itemVars>>

DiffInit ==
    /\ dObject \in Arguments
    /\ dBase \in Arguments
    /\ dResult = <<>>

DiffUnused ==
    /\ dObject = Undefined
    /\ dBase = Undefined
    /\ dResult = <<>>

NextDiff == CallDifference

(***************************************************************************)
(* EventService and ExceptionService, both provided in root: one instance  *)
(* of each per process.  A WebSocketSubject is identified by the order of  *)
(* its creation; 0 stands for a field that is still undefined.             *)
(***************************************************************************)
EventsUrl == "/ws/v1/events"

ExceptionsUrl == "/ws/v1/exceptions"

\* if (!this.eventSubject)
subjectMissingAlways(subject) == TRUE

subjectMissing(subject) == subject = 0

\* webSocket(url): a new WebSocketSubject
webSocket(chs, url) == [id |-> Len(chs) + 1, url |-> url]

\* get events()
events ==
    /\ Len(returned) < MaxAccesses
    /\ IF subjectMissing(eventSubject)
       THEN /\ channels' = Append(channels, webSocket(channels, EventsUrl))
            /\ eventSubject' = webSocket(channels, EventsUrl).id
       ELSE UNCHANGED <<channels, eventSubject>>
    /\ returned' = Append(returned, [getter |-> "events",
                                      id |-> eventSubject'])
    /\ UNCHANGED exceptionSubject
    /\ UNCHANGED <<syncVars, retryVars, pollVars, authVars, formVars,
                   diffVars, itemVars>>

\* get exceptions()
exceptions ==
    /\ Len(returned) < MaxAccesses
    /\ IF subjectMissing(exceptionSubject)
       THEN /\ channels' = Append(channels,
                                  webSocket(channels, ExceptionsUrl))
            /\ exceptionSubject' = webSocket(channels, ExceptionsUrl).id
       ELSE UNCHANGED <<channels, exceptionSubject>>
    /\ returned' = Append(returned, [getter |-> "exceptions",
                                      id |-> exceptionSubject'])
    /\ UNCHANGED eventSubject
    /\ UNCHANGED <<syncVars, retryVars, pollVars, authVars, formVars,
                   diffVars, itemVars>>

\* after the constructors of the two services
PushInit ==
    /\ eventSubject = 0
    /\ exceptionSubject = 0
    /\ channels = <<>>
    /\ returned = <<>>

NextPush ==
    \/ events
    \/ exceptions

(***************************************************************************)
(* TaskItemComponent: the recorder switch, and the task settings dialog    *)
(* (TaskSettingsDialogComponent) whose confirm output it handles.          *)
(* A request in flight is [by |-> "toggle" or "menu"].                     *)
(***************************************************************************)
\* the task options: one group of settings, output, with scalar fields
TaskOptionsSet == {[k \in {"output"} |-> Object(sn)] : sn \in Snapshots}

\* the next callback of the subscriber of toggleRecorder
nextCallback(sp) == FALSE

\* the subscriber of toggleRecorder has no error callback
errorCallbackAbsent(sp) == sp

\* this.data changes: the parent passes the task data of a later poll
DataChange(re, me) ==
    /\ <<re, me>> # <<recorderEnabled, monitorEnabled>>
    /\ recorderEnabled' = re
    /\ monitorEnabled' = me
    /\ UNCHANGED <<switchPending, pending, taskOptions, options,
                   settingsDialogVisible, patch>>
    /\ UNCHANGED <<syncVars, retryVars, pollVars, authVars, formVars,
                   diffVars, pushVars>>

\* toggleRecorder(): nothing while forbidden or pending, else a request to
\* disable or to enable the recorder is sent
toggleRecorder ==
    /\ monitorEnabled
    /\ ~switchPending
    /\ Cardinality(DOMAIN pending) < MaxPending
    /\ switchPending' = TRUE
    /\ pending' = Append(pending, [by |-> "toggle"])
    /\ UNCHANGED <<recorderEnabled, monitorEnabled, taskOptions, options,
                   settingsDialogVisible, patch>>
    /\ UNCHANGED <<syncVars, retryVars, pollVars, authVars, formVars,
                   diffVars, pushVars>>

\* disableRecorder() of the menu, not forced: a request is sent
disableRecorder ==
    /\ recorderEnabled
    /\ Cardinality(DOMAIN pending) < MaxPending
    /\ pending' = Append(pending, [by |-> "menu"])
    /\ UNCHANGED <<switchPending, recorderEnabled, monitorEnabled,
                   taskOptions, options, settingsDialogVisible, patch>>
    /\ UNCHANGED <<syncVars, retryVars, pollVars, authVars, formVars,
                   diffVars, pushVars>>

\* the sequence q without its element j
Remove(q, j) == SubSeq(q, 1, j - 1) \o SubSeq(q, j + 1, Len(q))

\* request j is answered: the next callback of its subscriber runs
RecorderRequestSucceeds(j) ==
    /\ j \in DOMAIN pending
    /\ pending' = Remove(pending, j)
    /\ switchPending' = IF pending[j].by = "toggle"
                        THEN nextCallback(switchPending)
                        ELSE switchPending
    /\ UNCHANGED <<recorderEnabled, monitorEnabled, taskOptions, options,
                   settingsDialogVisible, patch>>
    /\ UNCHANGED <<syncVars, retryVars, pollVars, authVars, formVars,
                   diffVars, pushVars>>

\* request j fails: the error goes to the subscriber
RecorderRequestFails(j) ==
    /\ j \in DOMAIN pending
    /\ pending' = Remove(pending, j)
    /\ switchPending' = IF pending[j].by = "toggle"
                        THEN errorCallbackAbsent(switchPending)
                        ELSE switchPending
    /\ UNCHANGED <<recorderEnabled, monitorEnabled, taskOptions, options,
                   settingsDialogVisible, patch>>
    /\ UNCHANGED <<syncVars, retryVars, pollVars, authVars, formVars,
                   diffVars, pushVars>>

\* openSettingsDialog(): the options are loaded, the dialog is created and
\* its ngOnChanges clones them
openSettingsDialog(loaded) ==
    /\ ~settingsDialogVisible
    /\ taskOptions' = <<loaded>>
    /\ options' = <<loaded>>
    /\ settingsDialogVisible' = TRUE
    /\ UNCHANGED <<switchPending, recorderEnabled, monitorEnabled, pending,
                   patch>>
    /\ UNCHANGED <<syncVars, retryVars, pollVars, authVars, formVars,
                   diffVars, pushVars>>

\* the operator sets field k of the output group in the form of the dialog
EditOption(k, v) ==
    /\ settingsDialogVisible
    /\ options[1]["output"].val[k] # Scalar(v)
    /\ options' = <<[options[1] EXCEPT
                        !["output"] = Object([@.val EXCEPT ![k] = Scalar(v)])]>>
    /\ UNCHANGED <<switchPending, recorderEnabled, monitorEnabled, pending,
                   taskOptions, settingsDialogVisible, patch>>
    /\ UNCHANGED <<syncVars, retryVars, pollVars, authVars, formVars,
                   diffVars, pushVars>>

\* changeTaskOptions(options): the PATCH request is sent with this body
changeTaskOptions(body) == <<body>>

\* handleConfirm(): the difference is emitted on confirm, whose handler is
\* changeTaskOptions; the dialog closes and cleanSettingsData runs
handleConfirm ==
    /\ settingsDialogVisible
    /\ patch' = changeTaskOptions(difference(options[1], taskOptions[1]))
    /\ settingsDialogVisible' = FALSE
    /\ taskOptions' = <<>>
    /\ options' = <<>>
    /\ UNCHANGED <<switchPending, recorderEnabled, monitorEnabled, pending>>
    /\ UNCHANGED <<syncVars, retryVars, pollVars, authVars, formVars,
                   diffVars, pushVars>>

\* handleCancel(): the dialog closes and cleanSettingsData runs
handleCancel ==
    /\ settingsDialogVisible
    /\ settingsDialogVisible' = FALSE
    /\ taskOptions' = <<>>
    /\ options' = <<>>
    /\ UNCHANGED <<switchPending, recorderEnabled, monitorEnabled, pending,
                   patch>>
    /\ UNCHANGED <<syncVars, retryVars, pollVars, authVars, formVars,
                   diffVars, pushVars>>

\* after the constructor and the first ngOnChanges
ItemInit ==
    /\ switchPending = FALSE
    /\ recorderEnabled \in BOOLEAN
    /\ monitorEnabled \in BOOLEAN
    /\ pending = <<>>
    /\ taskOptions = <<>>
    /\ options = <<>>
    /\ settingsDialogVisible = FALSE
    /\ patch = <<>>

ItemUnused ==
    /\ switchPending = FALSE
    /\ recorderEnabled = FALSE
    /\ monitorEnabled = FALSE
    /\ pending = <<>>
    /\ taskOptions = <<>>
    /\ options = <<>>
    /\ settingsDialogVisible = FALSE
    /\ patch = <<>>

NextItem ==
    \/ \E re, me \in BOOLEAN : DataChange(re, me)
    \/ toggleRecorder
    \/ disableRecorder
    \/ \E j \in DOMAIN pending : RecorderRequestSucceeds(j)
    \/ \E j \in DOMAIN pending : RecorderRequestFails(j)
    \/ \E loaded \in TaskOptionsSet : openSettingsDialog(loaded)
    \/ \E k \in Fields : \E v \in Values : EditOption(k, v)
    \/ handleConfirm
    \/ handleCancel

(***************************************************************************)
(* Specifications.                                                         *)
(***************************************************************************)
InitSync ==
    /\ SyncInit /\ RetryUnused /\ PollUnused /\ AuthUnused /\ FormUnused
    /\ DiffUnused /\ PushInit /\ ItemUnused

SpecSync == InitSync /\ [][NextSync]_vars

InitRetry ==
    /\ SyncInit /\ RetryInit /\ PollUnused /\ AuthUnused /\ FormUnused
    /\ DiffUnused /\ PushInit /\ ItemUnused

SpecRetry == InitRetry /\ [][NextRetry]_vars

InitPoll ==
    /\ SyncInit /\ RetryUnused /\ PollInit /\ AuthUnused /\ FormUnused
    /\ DiffUnused /\ PushInit /\ ItemUnused

SpecPoll == InitPoll /\ [][NextPoll]_vars

\* the polling feed when no request fails: the steps of the view, the
\* interval and the answers
NextFeed ==
    \/ ngOnInit
    \/ ngOnDestroy
    \/ VisibilityChange
    \/ \E sel \in Selections : onSelectionChanged(sel)
    \/ \E s \in SubIds : IntervalTick(s)
    \/ \E s \in SubIds : \E f \in subs[s].fetches : FetchSucceeds(s, f)

\* the names FreshFetch gives to the requests of one subscription: switchMap
\* keeps one request pending, so two names are enough
FetchIds == {1, 2}

\* the scheduling of the feed: the interval of a subscribed source keeps
\* emitting, and a request that stays pending is answered after a finite
\* time.  Nothing makes an answer arrive before the next emission of the
\* interval: the latency of a request may exceed the 1000 ms.
FeedFairness ==
    /\ \A s \in SubIds : WF_vars(IntervalTick(s))
    /\ \A s \in SubIds : \A f \in FetchIds : WF_vars(FetchSucceeds(s, f))

SpecFeed == InitPoll /\ [][NextFeed]_vars /\ FeedFairness

InitAuth ==
    /\ SyncInit /\ RetryUnused /\ PollUnused /\ AuthInit /\ FormUnused
    /\ DiffUnused /\ PushInit /\ ItemUnused

SpecAuth == InitAuth /\ [][NextAuth]_vars

InitForm ==
    /\ SyncInit /\ RetryUnused /\ PollUnused /\ AuthUnused /\ FormInit
    /\ DiffUnused /\ PushInit /\ ItemUnused

SpecForm == InitForm /\ [][NextForm]_vars

InitDiff ==
    /\ SyncInit /\ RetryUnused /\ PollUnused /\ AuthUnused /\ FormUnused
    /\ DiffInit /\ PushInit /\ ItemUnused

SpecDiff == InitDiff /\ [][NextDiff]_vars

InitPush ==
    /\ SyncInit /\ RetryUnused /\ PollUnused /\ AuthUnused /\ FormUnused
    /\ DiffUnused /\ PushInit /\ ItemUnused

SpecPush == InitPush /\ [][NextPush]_vars

InitItem ==
    /\ SyncInit /\ RetryUnused /\ PollUnused /\ AuthUnused /\ FormUnused
    /\ DiffUnused /\ PushInit /\ ItemInit

SpecItem == InitItem /\ [][NextItem]_vars

(***************************************************************************)
(* Properties of the settings synchronizer (checked under SpecSync).       *)
(***************************************************************************)
\* the value the edit numbered id follows: the edit before it, or the
\* initial snapshot for the first edit
PrevEdit(id) == IF id = 1 THEN initialValue ELSE editLog[id - 1]

\* the edits for which a PATCH request has been sent
IssuedIds == {requests[j].id : j \in DOMAIN requests}

\* the positions in records of the details of the edit numbered id
RecordsOf(id) == {j \in DOMAIN records : records[j].id = id}

SetMax(S) == CHOOSE x \in S : \A y \in S : y <= x

\* the edit of the most recently sent request whose delta has field f (0: none)
LastIssuedWith(f) ==
    LET js == {j \in DOMAIN requests : f \in DOMAIN requests[j].diff}
    IN  IF js = {} THEN 0 ELSE requests[SetMax(js)].id

\* the position of the most recently consumed detail whose delta has field f
LastRecordWith(f) ==
    LET js == {j \in DOMAIN records : f \in DOMAIN records[j].diff}
    IN  IF js = {} THEN 0 ELSE SetMax(js)

\* C1 (as claimed): every edit for which a write was issued gets exactly one
\* detail whose curr is that edit.  Stated on finite runs: no edit ever has
\* two details, and once no request and no retry delay is pending every
\* issued edit has its detail, since nothing is left that could emit one.
C1_EveryIssuedEditGetsOneRecord ==
    /\ \A id \in IssuedIds : Cardinality(RecordsOf(id)) <= 1
    /\ inners = {} =>
          \A id \in IssuedIds :
              \E j \in RecordsOf(id) : records[j].curr = editLog[id]

\* C2 (as claimed): a field's status is true only if the most recently
\* issued write whose delta has the field completed successfully (or no such
\* write was issued), and false only if that write failed.
C2_StatusReflectsLastIssuedWrite ==
    \A f \in Fields :
        LET id == LastIssuedWith(f)
        IN  /\ syncStatus[f] =>
                  \/ id = 0
                  \/ \E j \in RecordsOf(id) : records[j].ok
            /\ ~syncStatus[f] =>
                  /\ id # 0
                  /\ \E j \in RecordsOf(id) : ~records[j].ok

\* C2 (amended): a field's status is false exactly when the most recently
\* consumed detail whose delta has the field is an error detail; it is true
\* when no such detail was consumed yet or the most recent one is a result.
C2_StatusReflectsLastRecord ==
    \A f \in Fields :
        syncStatus[f] = (LastRecordWith(f) = 0 \/ records[LastRecordWith(f)].ok)

\* C2 witness: one field failed, another field was written successfully
\* afterwards, and the failed field keeps its status
C2_Witness ==
    /\ Len(records) = 2
    /\ ~records[1].ok /\ records[2].ok
    /\ DOMAIN records[1].diff = {"outDir"}
    /\ DOMAIN records[2].diff = {"filesizeLimit"}
    /\ ~syncStatus["outDir"] /\ syncStatus["filesizeLimit"]

\* C3: no request carries an empty delta, and an edit equal to the value
\* before it (the preceding edit, or the initial snapshot) gets no request
\* and no detail.
C3_NoWriteForEmptyDelta ==
    /\ \A j \in DOMAIN requests : ~isEmpty(requests[j].diff)
    /\ \A id \in DOMAIN editLog :
          editLog[id] = PrevEdit(id) =>
              id \notin IssuedIds /\ RecordsOf(id) = {}

\* C3 witness: two equal consecutive edits that differ from the initial
\* snapshot, with exactly one request sent and answered
C3_Witness ==
    /\ Len(editLog) = 2
    /\ editLog[1] = editLog[2]
    /\ editLog[1] # initialValue
    /\ Len(requests) = 1 /\ requests[1].id = 1
    /\ Len(records) = 1 /\ records[1].id = 1
    /\ inners = {}

\* C4: the accumulator holds the last edit as curr and the edit before it
\* (the initial snapshot at the start) as prev, and every write was diffed
\* against the edit preceding its own, whatever became of that edit.
C4_PrevIsPrecedingEdit ==
    /\ acc.curr = (IF editLog = <<>> THEN initialValue
                                     ELSE editLog[Len(editLog)])
    /\ acc.prev = (IF editLog = <<>> THEN initialValue
                                     ELSE PrevEdit(Len(editLog)))
    /\ \A i \in inners :
          /\ i.curr = editLog[i.id]
          /\ i.prev = PrevEdit(i.id)
          /\ i.diff = difference(editLog[i.id], PrevEdit(i.id))
    /\ \A j \in DOMAIN requests :
          requests[j].diff =
              difference(editLog[requests[j].id], PrevEdit(requests[j].id))

\* C4 witness: the first edit's write failed, and the second edit is diffed
\* against the first edit, not against the initial snapshot
C4_Witness ==
    /\ Len(editLog) = 2
    /\ editLog[1] # initialValue
    /\ \E j \in RecordsOf(1) : ~records[j].ok
    /\ 2 \in IssuedIds
    /\ acc.prev = editLog[1]
    /\ acc.diff # difference(editLog[2], initialValue)

\* C5: requests, retries included, are sent in the order of their edits.
C5_RequestsInEditOrder ==
    \A j, k \in DOMAIN requests : j < k => requests[j].id <= requests[k].id

\* C5 witness: the first edit was retried once and then superseded by the
\* second edit, which was retried too
C5_Witness ==
    /\ Len(requests) = 4
    /\ requests[1].id = 1 /\ requests[2].id = 1
    /\ requests[3].id = 2 /\ requests[4].id = 2
    /\ RecordsOf(1) = {}

\* C6: the step that consumes a detail sets the status of exactly the keys
\* of its delta, to true for a result and to false for an error, and leaves
\* the status of every other key as it was.
C6_RecordUpdatesExactlyDeltaKeys ==
    [][Len(records') > Len(records) =>
          LET r == records'[Len(records')]
          IN  \A k \in Fields :
                  syncStatus'[k] =
                      IF k \in DOMAIN r.diff THEN r.ok ELSE syncStatus[k]]_vars

\* C6 witness: filesizeLimit edited from 0 to 1, the write failed on its
\* last retry, and only filesizeLimit is marked failed
C6_Witness ==
    /\ lastDetail # <<>>
    /\ "error" \in DOMAIN lastDetail[1]
    /\ lastDetail[1].error.attempt = SyncRetryCount + 1
    /\ lastDetail[1].prev = LoadedSettings
    /\ lastDetail[1].diff = [k \in {"filesizeLimit"} |-> Scalar(1)]
    /\ ~syncStatus["filesizeLimit"] /\ syncStatus["outDir"]

\* C7: the stream never terminates, and every edit with a non-empty delta
\* gets its request, and then has its detail, or is still being written, or
\* was superseded by the write of a later edit.
C7_WriteOutcomesKeepStreamLive ==
    /\ live
    /\ \A id \in DOMAIN editLog :
          ~isEmpty(difference(editLog[id], PrevEdit(id))) =>
              /\ id \in IssuedIds
              /\ \/ RecordsOf(id) # {}
                 \/ \E i \in inners : i.id = id
                 \/ \E later \in IssuedIds : later > id

\* C7 witness: the first write failed after its retries, and the next edit
\* was sent and answered with a result that differs from what was intended
C7_Witness ==
    /\ Len(records) = 2
    /\ records[1].id = 1 /\ ~records[1].ok
    /\ records[2].id = 2 /\ records[2].ok
    /\ lastDetail[1].result # lastDetail[1].curr
    /\ live

(***************************************************************************)
(* Properties of the retry operator (checked under SpecRetry).             *)
(***************************************************************************)
\* the retried stream has delivered an error / a value
RetryFailed == rPhase = "done" /\ ~rOutcome[1].ok

RetrySucceeded == rPhase = "done" /\ rOutcome[1].ok

\* C8: with a finite count the operation is never invoked more than
\* count + 1 times; when the retried stream ends with an error, every one of
\* exactly count + 1 invocations has failed and the error delivered is the
\* error of the last invocation itself.
C8_ExhaustedRetrySurfacesLastError ==
    /\ rCount # POSITIVE_INFINITY /\ rOutcome = <<>> /\ rPhase # "unused" =>
          Len(rInvokedAt) <= rCount + 1
    /\ RetryFailed =>
          /\ rCount # POSITIVE_INFINITY
          /\ Len(rInvokedAt) = rCount + 1
          /\ Len(rFailedAt) = rCount + 1
          /\ rOutcome[1].value = OpError(Len(rInvokedAt))

\* C8 witness: count = 1, the operation failed twice, and the second error
\* is delivered
C8_Witness ==
    /\ rCount = 1
    /\ RetryFailed
    /\ Len(rInvokedAt) = 2
    /\ rOutcome[1].value = OpError(2)

\* C9: when the retried stream ends with a value, the operation failed
\* k <= count times and was invoked k + 1 times, the value is that of the
\* last invocation, and every invocation after the first one happened no
\* sooner than `delay` after the failure before it.
C9_RetryUntilSuccessWithDelay ==
    /\ RetrySucceeded =>
          /\ Len(rInvokedAt) = Len(rFailedAt) + 1
          /\ rCount # POSITIVE_INFINITY => Len(rFailedAt) <= rCount
          /\ rOutcome[1].value = OpValue(Len(rInvokedAt))
    /\ \A n \in 2..Len(rInvokedAt) :
          /\ n - 1 \in DOMAIN rFailedAt
          /\ rInvokedAt[n] >= rFailedAt[n - 1] + rDelay

\* C9 witness: count = 2, two failures, then success at the third invocation
C9_Witness ==
    /\ rCount = 2
    /\ RetrySucceeded
    /\ Len(rFailedAt) = 2
    /\ Len(rInvokedAt) = 3
    /\ rOutcome[1].value = OpValue(3)

Polling(ss) == {s \in SubIds : ss[s].phase \in {"active", "retrywait"}}

\* C11: a subscription never has two requests pending whose result could
\* reach its next callback, and a result that reaches the callback is the
\* result of the only pending request: the request a tick has superseded is
\* cancelled and is never delivered.
C11_OnlyLatestFetchDelivered ==
    [][\A s \in SubIds :
          /\ Cardinality(subs[s].fetches) <= 1
          /\ Cardinality(subs'[s].fetches) <= 1
          /\ \A f \in subs[s].fetches :
                FetchSucceeds(s, f) =>
                    /\ subs[s].fetches = {f}
                    /\ subs'[s].fetches = {}]_vars

\* C11 witness: a tick has superseded a pending request of a subscription,
\* a result has been delivered, and one request is pending
C11_Witness ==
    \E s \in SubIds :
        /\ subs[s].cancelled
        /\ ~loading
        /\ Cardinality(subs[s].fetches) = 1

\* C12 (as claimed): a feed ends with an error only after a request and all
\* of its PollRetryCount retries failed in a row; a failure that was followed
\* by a successful request does not count.
C12_TerminatesOnlyAfterFailuresInARow ==
    \A s \in SubIds : subs[s].phase = "errored" => ~subs[s].recovered

\* what C13 says of the state of subscription s
ExhaustedOnce(ss, s) ==
    /\ ss[s].phase = "errored" => ss[s].sticky = 1 /\ ss[s].fetches = {}
    /\ ss[s].phase # "errored" => ss[s].sticky = 0

\* C13: a feed whose retries are exhausted has issued the notification with
\* nzDuration 0 exactly once, a feed that is not exhausted has issued none,
\* and an exhausted feed has no pending request and never changes again: it
\* sends no request and delivers no value.
C13_ExhaustedFeedNotifiesOnceAndStays ==
    [][\A s \in SubIds :
          /\ ExhaustedOnce(subs, s)
          /\ ExhaustedOnce(subs', s)
          /\ subs[s].phase = "errored" => subs'[s] = subs[s]]_vars

\* C13 witness: one subscription has ended with exhausted retries, and a
\* subscription created after it polls
C13_Witness ==
    \E s, t \in SubIds :
        /\ s < t
        /\ subs[s].phase = "errored"
        /\ subs[s].sticky = 1
        /\ t \in Polling(subs)

\* C14 (as claimed): while the document is not visible no subscription
\* polls (no request pending, no interval and no retry timer armed), and a
\* change to visible starts exactly one request.
C14_NoPollingWhileHidden ==
    [][/\ ~visible' => Polling(subs') = {}
       /\ (~visible /\ visible') =>
             \E s \in SubIds :
                 /\ Cardinality(subs'[s].fetches) = 1
                 /\ subs[s].fetches = {}
                 /\ \A t \in SubIds \ {s} : subs'[t] = subs[t]]_vars

\* C15 (as claimed): once the component is destroyed no request is sent for
\* it and no result reaches its next callback.
C15_NoPollingAfterDestroy ==
    [][tPhase = "destroyed" =>
          \A s \in SubIds :
              /\ subs'[s].fetches \subseteq subs[s].fetches
              /\ \A f \in subs[s].fetches : ~FetchSucceeds(s, f)]_vars

\* C28 (as claimed): a view has at most one subscription that polls at any
\* time: a new subscription is created only when the one created before it
\* has been unsubscribed or has ended.
C28_AtMostOneLiveSubscription ==
    Cardinality(Polling(subs)) <= 1

\* C27 (as claimed): when no request fails, a view that has a polling
\* subscription and has not been given a value yet is eventually given one
\* (loading becomes false), unless its subscriptions are unsubscribed
\* first, whatever the latency of the requests is.
C27_SubscribedFeedEventuallyDelivers ==
    (Polling(subs) # {}) ~> (~loading \/ Polling(subs) = {})

(***************************************************************************)
(* Properties of the AuthInterceptor (checked under SpecAuth).             *)
(***************************************************************************)
\* C16 (as claimed): every attempt carries the key that the store holds at
\* the moment the attempt is sent.
C16_AttemptCarriesStoredKey ==
    \A i \in DOMAIN aSent : aSent[i].header = aSent[i].stored

C18_OnePromptPerRequest ==
    /\ aPrompts <= 1
    /\ (\E i \in DOMAIN aStatus : aStatus[i] = Unauthorized) =>
          /\ aPrompts = 1
          /\ hasApiKey(storage)

\* C19 (as claimed): a failure with another status than 401 leaves the store
\* unchanged, prompts nobody, and does not send the request again.
C19_OtherFailureNotHandled ==
    [][\A status \in OtherStatuses :
          ResponseOtherError(status) =>
              /\ storage' = storage
              /\ aPrompts' = aPrompts
              /\ aSent' = aSent]_vars

(***************************************************************************)
(* Properties of the settings views (checked under SpecForm).              *)
(***************************************************************************)
\* C20 (as claimed): no write is issued for a value that the form produced
\* while it was invalid, in any settings view.
C20_NoWriteForInvalidValue ==
    \A i \in DOMAIN fWrite : fWrite[i].valid

\* an object with every field trimmed
TrimmedFields(object) ==
    [k \in DOMAIN object |-> Scalar(trim(object[k].val))]

\* C21: two values that filterValueChanges emits one after the other are
\* not structurally equal after their string fields are trimmed.
C21_NoEqualConsecutiveEmissions ==
    Len(fOut) = 2 =>
        ~isEqual(Object(TrimmedFields(fOut[1])),
                 Object(TrimmedFields(fOut[2])))

\* C21 witness: "u" was emitted after another value, then the form produced
\* "u " (valid, equal to "u" after trimming), the timer fired and nothing
\* was emitted
C21_Witness ==
    /\ view \in FilteredViews
    /\ Len(fOut) = 2
    /\ fOut[2] = FormObject(view, <<"u">>)
    /\ formValue = <<"u", " ">>
    /\ fDebounce = <<>>

\* C30 (as claimed): a value that filterValueChanges emits is the trimmed
\* value the form produced last, whether that value was valid or not.
C30_EmitsMostRecentFormValue ==
    [][(DebounceFires /\ fOut' # fOut) =>
          fOut'[Len(fOut')] = TrimmedFields(FormObject(view, formValue))]_vars

\* C30 (amended): a value that filterValueChanges emits is the trimmed value
\* the form produced last while it was valid; a valid value followed within
\* the quiet window by another valid value is not emitted, and an invalid
\* value neither restarts the window nor replaces the held value.
C30_EmitsMostRecentValidValue ==
    [][(DebounceFires /\ fOut' # fOut) =>
          /\ fLastValid # <<>>
          /\ fOut'[Len(fOut')] =
                 TrimmedFields(FormObject(view, fLastValid[1]))]_vars

\* C30 witness: the form produced a valid value and then an invalid one, and
\* the valid value was emitted when the timer fired
C30_Witness ==
    /\ view \in FilteredViews
    /\ fDebounce = <<>>
    /\ fOut # <<>>
    /\ ~valid(view, formValue)
    /\ fLastValid # <<>>
    /\ fOut[Len(fOut)] = TrimmedFields(FormObject(view, fLastValid[1]))
    /\ fOut[Len(fOut)] # TrimmedFields(FormObject(view, formValue))

(***************************************************************************)
(* Properties of difference (checked under SpecDiff).                      *)
(***************************************************************************)
\* two values of the same shape: the same keys at every level
RECURSIVE SameShape(_, _)
SameShape(a, b) ==
    /\ a.kind = b.kind
    /\ isObject(a) =>
          /\ DOMAIN a.val = DOMAIN b.val
          /\ \A k \in DOMAIN a.val : SameShape(a.val[k], b.val[k])

\* a delta applied to a snapshot: the listed leaves are replaced
RECURSIVE apply(_, _)
apply(base, delta) ==
    [k \in DOMAIN base \cup DOMAIN delta |->
        IF k \notin DOMAIN delta THEN base[k]
        ELSE IF k \in DOMAIN base /\ isObject(base[k]) /\ isObject(delta[k])
             THEN Object(apply(base[k].val, delta[k].val))
             ELSE delta[k]]

\* the call has returned, and both arguments were objects
ReturnedForObjects ==
    /\ dResult # <<>>
    /\ isObject(dObject)
    /\ isObject(dBase)

\* C22: for snapshots A = dBase and B = dObject of the same shape,
\* difference(B, A) applied to A yields B.
C22_DiffApplyRoundTrip ==
    (ReturnedForObjects /\ SameShape(dObject, dBase)) =>
        /\ dResult[1].kind = "return"
        /\ apply(dBase.val, dResult[1].val) = dObject.val

\* C22 witness: two snapshots of the same shape that differ in one leaf of
\* the nested object, and the delta lists that leaf alone
C22_Witness ==
    /\ ReturnedForObjects
    /\ SameShape(dObject, dBase)
    /\ DOMAIN dObject.val = {"a", "g"}
    /\ isObject(dObject.val["g"])
    /\ DOMAIN dObject.val["g"].val = {"x", "y"}
    /\ dResult[1] = Returned([k \in {"g"} |->
                                Object([j \in {"x"} |-> Scalar(1)])])

\* C24 (as claimed): the delta has a field only if the field is in current
\* and its value differs from that in base; the sub-delta of a nested object
\* is never empty and has only keys of the nested object of current.
C24_DeltaOnlyChangedNoEmptyMaps ==
    ReturnedForObjects =>
        /\ dResult[1].kind = "return"
        /\ LET d == dResult[1].val
               object == dObject.val
               base == dBase.val
           IN  /\ DOMAIN d \subseteq DOMAIN object
               /\ \A k \in DOMAIN d :
                     /\ ~isEqual(object[k], ReflectGet(base, k))
                     /\ (isObject(object[k]) /\ isObject(ReflectGet(base, k)))
                           => /\ ~isEmpty(d[k].val)
                              /\ DOMAIN d[k].val \subseteq DOMAIN object[k].val

\* C26 (as claimed): difference never throws; an undefined current gives an
\* empty delta, and with an undefined base the delta is current.
C26_NoErrorForUndefinedArguments ==
    dResult # <<>> =>
        /\ dResult[1].kind = "return"
        /\ dObject = Undefined => isEmpty(dResult[1].val)
        /\ (dBase = Undefined /\ isObject(dObject)) =>
              dResult[1].val = dObject.val

(***************************************************************************)
(* Properties of the push services (checked under SpecPush).               *)
(***************************************************************************)
\* the channels created for a url, and the objects a getter has returned
ChannelsOf(url) == {j \in DOMAIN channels : channels[j].url = url}

ReturnedBy(getter) ==
    {returned[j].id : j \in {i \in DOMAIN returned :
                                returned[i].getter = getter}}

\* C23: each stream has at most one channel; it exists exactly when its
\* getter has been read, every read of the getter returned that channel,
\* and the channels of the two streams are different objects.
C23_OneChannelPerStream ==
    /\ Cardinality(ChannelsOf(EventsUrl)) <= 1
    /\ Cardinality(ChannelsOf(ExceptionsUrl)) <= 1
    /\ ReturnedBy("events") = {channels[j].id : j \in ChannelsOf(EventsUrl)}
    /\ ReturnedBy("exceptions") =
          {channels[j].id : j \in ChannelsOf(ExceptionsUrl)}
    /\ ReturnedBy("events") \cap ReturnedBy("exceptions") = {}
    /\ \A i, j \in DOMAIN channels : channels[i].id = channels[j].id => i = j

\* C23 witness: both getters were read more than once, and two channels
\* exist
C23_Witness ==
    /\ Len(channels) = 2
    /\ Cardinality({i \in DOMAIN returned :
                       returned[i].getter = "events"}) >= 2
    /\ Cardinality({i \in DOMAIN returned :
                       returned[i].getter = "exceptions"}) >= 2

(***************************************************************************)
(* Properties of the task item (checked under SpecItem).                   *)
(***************************************************************************)
\* C25 (as claimed): no PATCH of the task options is sent with an empty
\* delta.
C25_NoPatchForEmptyDelta ==
    patch # <<>> => ~isEmpty(patch[1])

\* the requests of toggleRecorder that are in flight
TogglesPending == {j \in DOMAIN pending : pending[j].by = "toggle"}

\* C29 (as claimed): at most one request of toggleRecorder is in flight, and
\* once it has completed, with success or with failure, switchPending is
\* false again, so that toggleRecorder is accepted.
C29_SwitchPendingFollowsRequest ==
    /\ Cardinality(TogglesPending) <= 1
    /\ TogglesPending = {} => ~switchPending

====
